---------------------------- MODULE Spec2Model ----------------------------
(***************************************************************************)
(* Model of src/main.py (Nigeria Sales Predictor): the module-level        *)
(* start-up code, the lazy model loader get_lazy_model and the POST        *)
(* handler predict_sales, run by several request threads at once.          *)
(*                                                                         *)
(* Conventions.  A Python value that may be absent is a sequence of        *)
(* length 0 or 1 (<<>> is None / "raised", <<v>> is the value v).  A       *)
(* string that the code parses (the date) is a sequence of one-character   *)
(* strings.  Unit counts and currency amounts are exact fractions, held as  *)
(* integers counted in 1/UnitScale; the rounding of binary floating point  *)
(* is not modelled.                                                        *)
(***************************************************************************)
EXTENDS Integers, Sequences, FiniteSets, TLC

(***************************************************************************)
(* Bounds of the model.                                                    *)
(***************************************************************************)
\* number of request threads the hosting server runs at once
NReq == 2
\* largest whole number of predicted units the scorer returns
MaxUnits == 100
\* number of calendar years, from 2016 on, the calendar functions are applied to
NYears == 2

Reqs == 1..NReq

(***************************************************************************)
(* Reference data loaded at start-up (src/main.py:61-75).  encoders.pkl    *)
(* and stores_nigeria.csv are data files; the tables below are a small     *)
(* instance of them with every kind of city the code distinguishes: in     *)
(* both tables (Lagos, Abuja), in the store table only (Ibadan), in the    *)
(* encoder only (Kano), in neither (any other string).                     *)
(***************************************************************************)
\* rows of stores_nigeria.csv, in file order
StoreRows ==
  << [store_nbr |-> 4, city |-> "Abuja",  type |-> "D", cluster |-> 13],
     [store_nbr |-> 7, city |-> "Lagos",  type |-> "A", cluster |-> 8],
     [store_nbr |-> 9, city |-> "Lagos",  type |-> "B", cluster |-> 6],
     [store_nbr |-> 12, city |-> "Ibadan", type |-> "C", cluster |-> 3] >>

\* encoders['city'].classes_ (a LabelEncoder keeps its labels sorted)
CityClasses == << "Abuja", "Kano", "Lagos" >>
\* encoders['family'].classes_; STATIONERY is a trained label with no price
FamilyClasses == << "AUTOMOTIVE", "GROCERY I", "HOME APPLIANCES", "STATIONERY" >>
\* encoders['type'].classes_
TypeClasses == << "A", "B", "C", "D", "E" >>

\* Transform with a fallback code for an unseen label in place of the ValueError
MutTransformFallback(classes, label) ==
  IF \E i \in 1..Len(classes) : classes[i] = label
  THEN << (CHOOSE i \in 1..Len(classes) : classes[i] = label) - 1 >>
  ELSE << 0 >>

\* LabelEncoder.transform([label])[0]: the 0-based position of the label in
\* classes_, or a ValueError (<<>>) for a label never seen in training.
Transform(classes, label) ==
  IF \E i \in 1..Len(classes) : classes[i] = label
  THEN << (CHOOSE i \in 1..Len(classes) : classes[i] = label) - 1 >>
  ELSE << >>

\* label in encoders[...].classes_
InClasses(classes, label) == \E i \in 1..Len(classes) : classes[i] = label

DEFAULT_OIL_PRICE == 50
CATEGORY_MULTIPLIER == 50
\* price_map.get(family, 1500): the fallback price
DefaultPrice == 1500
\* fixed-point denominator of unit counts and currency amounts
UnitScale == 2

(***************************************************************************)
(* Step A of predict_sales: the store of a city (src/main.py:138-145).     *)
(***************************************************************************)
\* stores_df[stores_df['city'] == city]
CityStores(city) ==
  LET Matches(row) == row.city = city IN SelectSeq(StoreRows, Matches)

DefaultProfile == [store_nbr |-> 1, cluster |-> 1, type |-> "D"]

\* the first matching row, else store 1, cluster 1, type 'D'
FindStore(city) ==
  LET rows == CityStores(city) IN
  IF rows # << >>
  THEN [store_nbr |-> rows[1].store_nbr, cluster |-> rows[1].cluster,
        type |-> rows[1].type]
  ELSE DefaultProfile

(***************************************************************************)
(* Step B: safe encoding of the city (src/main.py:148-151).                *)
(***************************************************************************)
SafeCityCode(city) ==
  IF InClasses(CityClasses, city)
  THEN Transform(CityClasses, city)
  ELSE Transform(CityClasses, CityClasses[1])

(***************************************************************************)
(* Step C: promotion intensity (src/main.py:154-155).                      *)
(***************************************************************************)
promo_map == [p \in {"no", "yes", "high"} |->
                CASE p = "no" -> 0 [] p = "yes" -> 10 [] p = "high" -> 50]

\* OnPromotion with the standard intensity as the default
MutOnPromotionNoDefault(promotion_status) ==
  IF promotion_status \in DOMAIN promo_map THEN promo_map[promotion_status] ELSE 10

\* promo_map.get(promotion_status, 0.0)
OnPromotion(promotion_status) ==
  IF promotion_status \in DOMAIN promo_map THEN promo_map[promotion_status] ELSE 0

(***************************************************************************)
(* datetime.strptime(date, '%Y-%m-%d') (src/main.py:156).  The format is   *)
(* matched as                                                              *)
(*   \d\d\d\d - (1[0-2]|0[1-9]|[1-9]) - (3[01]|[12]\d|0[1-9]|[1-9]| [1-9]) *)
(* against the whole string, and the fields must name a calendar day.      *)
(***************************************************************************)
DigitVal == ("0" :> 0) @@ ("1" :> 1) @@ ("2" :> 2) @@ ("3" :> 3) @@ ("4" :> 4) @@
            ("5" :> 5) @@ ("6" :> 6) @@ ("7" :> 7) @@ ("8" :> 8) @@ ("9" :> 9)

IsDigit(c) == c \in DOMAIN DigitVal

IsLeap(y) == (y % 4 = 0) /\ ((y % 100 # 0) \/ (y % 400 = 0))

DaysInMonth(y, m) ==
  CASE m \in {1, 3, 5, 7, 8, 10, 12} -> 31
    [] m \in {4, 6, 9, 11} -> 30
    [] OTHER -> IF IsLeap(y) THEN 29 ELSE 28

\* the month alternatives of the format, on the characters after "YYYY-"
MonthLen(s) ==
  IF /\ Len(s) >= 8 /\ s[8] = "-"
     /\ \/ (s[6] = "1" /\ s[7] \in {"0", "1", "2"})
        \/ (s[6] = "0" /\ IsDigit(s[7]) /\ s[7] # "0")
  THEN 2
  ELSE IF Len(s) >= 7 /\ s[7] = "-" /\ IsDigit(s[6]) /\ s[6] # "0"
       THEN 1
       ELSE 0

\* the day alternatives of the format, on the rest d of the string
DayField(d) ==
  IF Len(d) = 2
  THEN IF \/ (d[1] = "3" /\ d[2] \in {"0", "1"})
          \/ (d[1] \in {"1", "2"} /\ IsDigit(d[2]))
          \/ (d[1] = "0" /\ IsDigit(d[2]) /\ d[2] # "0")
       THEN << 10 * DigitVal[d[1]] + DigitVal[d[2]] >>
       ELSE IF d[1] = " " /\ IsDigit(d[2]) /\ d[2] # "0"
            THEN << DigitVal[d[2]] >>
            ELSE << >>
  ELSE IF Len(d) = 1 /\ IsDigit(d[1]) /\ d[1] # "0"
       THEN << DigitVal[d[1]] >>
       ELSE << >>

\* <<>> is the ValueError of an unparseable date
Strptime(s) ==
  IF Len(s) >= 5 /\ (\A i \in 1..4 : IsDigit(s[i])) /\ s[5] = "-" /\ MonthLen(s) > 0
  THEN LET y == 1000 * DigitVal[s[1]] + 100 * DigitVal[s[2]]
                 + 10 * DigitVal[s[3]] + DigitVal[s[4]]
           ml == MonthLen(s)
           m == IF ml = 2 THEN 10 * DigitVal[s[6]] + DigitVal[s[7]] ELSE DigitVal[s[6]]
           d == DayField(SubSeq(s, 6 + ml + 1, Len(s)))
       IN IF d # << >> /\ y >= 1 /\ d[1] <= DaysInMonth(y, m)
          THEN << [year |-> y, month |-> m, day |-> d[1]] >>
          ELSE << >>
  ELSE << >>

(***************************************************************************)
(* The calendar fields of the feature record (src/main.py:165-173), from   *)
(* the datetime dt.  weekday() and tm_yday are the proleptic Gregorian     *)
(* computations of the datetime type: Monday is 0, 1 January is day 1.     *)
(***************************************************************************)
DaysBeforeYear(y) == (y - 1) * 365 + (y - 1) \div 4 - (y - 1) \div 100 + (y - 1) \div 400

RECURSIVE DaysBeforeMonth(_, _)
DaysBeforeMonth(y, m) ==
  IF m = 1 THEN 0 ELSE DaysBeforeMonth(y, m - 1) + DaysInMonth(y, m - 1)

\* dt.timetuple().tm_yday
YearDay(dt) == DaysBeforeMonth(dt.year, dt.month) + dt.day

\* dt.toordinal()
ToOrdinal(dt) == DaysBeforeYear(dt.year) + YearDay(dt)

\* dt.weekday()
Weekday(dt) == (ToOrdinal(dt) + 6) % 7

\* (dt.month - 1) // 3 + 1
Quarter(dt) == (dt.month - 1) \div 3 + 1

\* IsWeekend with > for >=
MutIsWeekendSundayOnly(dt) == IF Weekday(dt) > 5 THEN 1 ELSE 0

\* 1 if dt.weekday() >= 5 else 0
IsWeekend(dt) == IF Weekday(dt) >= 5 THEN 1 ELSE 0

\* 1 if dt.day in [15, 30, 31] else 0
IsPayday(dt) == IF dt.day \in {15, 30, 31} THEN 1 ELSE 0

\* 1 if dt.day in [1, 16] else 0
IsPostPayday(dt) == IF dt.day \in {1, 16} THEN 1 ELSE 0

\* the ten calendar and flag columns of input_data
CalendarFields(dt) ==
  [month |-> dt.month,
   day_of_month |-> dt.day,
   day_of_week |-> Weekday(dt),
   day_of_year |-> YearDay(dt),
   quarter |-> Quarter(dt),
   is_weekend |-> IsWeekend(dt),
   is_payday |-> IsPayday(dt),
   is_post_payday |-> IsPostPayday(dt),
   is_holiday_or_event |-> 0]

(***************************************************************************)
(* Steps D and E: units, department scaling and revenue                    *)
(* (src/main.py:181-209).  pred is np.expm1(log_pred), a real above -1,    *)
(* counted in 1/UnitScale of a unit.                                       *)
(***************************************************************************)
price_map ==
  [f \in {"AUTOMOTIVE", "BABY CARE", "BEAUTY", "BEVERAGES", "BOOKS", "BREAD/BAKERY",
          "CELEBRATION", "CLEANING", "DAIRY", "DELI", "EGGS", "FROZEN FOODS",
          "GROCERY I", "GROCERY II", "HARDWARE", "HOME AND KITCHEN I",
          "HOME AND KITCHEN II", "HOME APPLIANCES", "HOME CARE", "LADIESWEAR",
          "LAWN AND GARDEN", "LINGERIE", "LIQUOR,WINE,BEER", "MAGAZINES", "MEATS",
          "PERSONAL CARE", "PET SUPPLIES", "PLAYERS AND ELECTRONICS", "POULTRY",
          "PREPARED FOODS", "PRODUCE", "SCHOOL AND OFFICE SUPPLIES", "SEAFOOD"} |->
     CASE f = "AUTOMOTIVE" -> 4500 [] f = "BABY CARE" -> 2500 [] f = "BEAUTY" -> 3000
       [] f = "BEVERAGES" -> 1200 [] f = "BOOKS" -> 2500 [] f = "BREAD/BAKERY" -> 500
       [] f = "CELEBRATION" -> 2000 [] f = "CLEANING" -> 1500 [] f = "DAIRY" -> 1800
       [] f = "DELI" -> 2500 [] f = "EGGS" -> 1200 [] f = "FROZEN FOODS" -> 3500
       [] f = "GROCERY I" -> 2000 [] f = "GROCERY II" -> 2000 [] f = "HARDWARE" -> 8000
       [] f = "HOME AND KITCHEN I" -> 6000 [] f = "HOME AND KITCHEN II" -> 6000
       [] f = "HOME APPLIANCES" -> 45000 [] f = "HOME CARE" -> 1500
       [] f = "LADIESWEAR" -> 6500 [] f = "LAWN AND GARDEN" -> 5000
       [] f = "LINGERIE" -> 4000 [] f = "LIQUOR,WINE,BEER" -> 4500
       [] f = "MAGAZINES" -> 800 [] f = "MEATS" -> 4500 [] f = "PERSONAL CARE" -> 1800
       [] f = "PET SUPPLIES" -> 3000 [] f = "PLAYERS AND ELECTRONICS" -> 25000
       [] f = "POULTRY" -> 4000 [] f = "PREPARED FOODS" -> 2000 [] f = "PRODUCE" -> 800
       [] f = "SCHOOL AND OFFICE SUPPLIES" -> 1200 [] f = "SEAFOOD" -> 5500]

\* ClampUnits without the clamp
MutClampUnitsNone(pred) == pred

\* max(0, float(units_pred))
ClampUnits(pred) == IF pred > 0 THEN pred ELSE 0

\* price_map.get(family, 1500)
AvgPrice(family) == IF family \in DOMAIN price_map THEN price_map[family] ELSE DefaultPrice

\* units_pred, adjusted_units, avg_price and revenue of one prediction
Estimate(pred, family) ==
  LET units_pred == ClampUnits(pred)
      adjusted_units == units_pred * CATEGORY_MULTIPLIER
      avg_price == AvgPrice(family)
  IN [units_pred |-> units_pred,
      adjusted_units |-> adjusted_units,
      avg_price |-> avg_price,
      revenue |-> adjusted_units * avg_price,
      \* int(adjusted_units) of detail_text
      items |-> adjusted_units \div UnitScale]

(***************************************************************************)
(* State.                                                                  *)
(***************************************************************************)
VARIABLES
  startup,    \* outcome of the start-up block, src/main.py:61-75
  model,      \* the global model: 0 is None, n > 0 the object of the n-th load
  loads,      \* number of joblib.load calls of the model that returned an object
  completed,  \* some call of get_lazy_model has returned
  history,    \* rows of prediction_history, in insertion order
  rq,         \* per request thread: inputs, locals and position in predict_sales
  calc        \* the pure step last applied to an input of its own, with its result

vars == << startup, model, loads, completed, history, rq, calc >>

\* the date strings posted: "2017-08-16" and "16-08-2017"
DateOk == << "2", "0", "1", "7", "-", "0", "8", "-", "1", "6" >>
DateDayFirst == << "1", "6", "-", "0", "8", "-", "2", "0", "1", "7" >>

\* the forms posted: a well-formed one, one with a city unknown to both tables,
\* one with a day-first date, one with a family unknown to the encoder
Forms ==
  { [date |-> DateOk, city |-> "Lagos", family |-> "GROCERY I", promotion_status |-> "high"],
    [date |-> DateOk, city |-> "Zamfara", family |-> "GROCERY I", promotion_status |-> "high"],
    [date |-> DateDayFirst, city |-> "Lagos", family |-> "GROCERY I", promotion_status |-> "high"],
    [date |-> DateOk, city |-> "Lagos", family |-> "WIDGETS", promotion_status |-> "high"] }

\* np.expm1(log_pred) is any real above -1: here a fraction of a unit below
\* zero, and MaxUnits units
Predictions == { -1, UnitScale * MaxUnits }

\* pc ranges over Idle, ModelCheck, ModelLoad, ModelReturn, Resolving,
\* Featurizing, Scoring, Estimating, Persisting, Done and Failed: the statement
\* the thread executes next, or how the request ended.  failedAt is the stage
\* whose statement raised, didLoad whether this request's call of joblib.load
\* returned, trace the stages entered so far.
IdleRequest ==
  [pc |-> "Idle", date |-> << >>, city |-> "", family |-> "", promotion_status |-> "",
   clf |-> 0, store |-> << >>, input_data |-> << >>, pred |-> << >>, est |-> << >>,
   formatted_result |-> << >>, failedAt |-> "", didLoad |-> FALSE, trace |-> << >>]

Init ==
  /\ startup \in { "ok", "no_csv", "error" }
  /\ model = 0
  /\ loads = 0
  /\ completed = FALSE
  /\ history = << >>
  /\ rq = [t \in Reqs |-> IdleRequest]
  /\ calc = [op |-> "none"]

\* the except branch of predict_sales (src/main.py:215-218), entered from stage
Raise(r, stage) ==
  [r EXCEPT !.pc = "Failed", !.failedAt = stage,
            !.formatted_result = << [kind |-> "error", revenue |-> 0] >>]

\* the request moves to the next stage, which the trace records
Goto(r, stage) == [r EXCEPT !.pc = stage, !.trace = Append(@, stage)]

\* Start with the call of get_lazy_model left for after feature building
MutStartFeaturesFirst(t, date, city, family, promotion_status) ==
  /\ rq[t].pc = "Idle"
  /\ rq' = [rq EXCEPT ![t] = Goto([@ EXCEPT !.date = date, !.city = city,
                                     !.family = family,
                                     !.promotion_status = promotion_status],
                                  "Resolving")]
  /\ UNCHANGED << startup, model, loads, completed, history, calc >>

\* a POST / arrives with its four form fields and calls get_lazy_model
\* (src/main.py:135)
Start(t, date, city, family, promotion_status) ==
  /\ rq[t].pc = "Idle"
  /\ rq' = [rq EXCEPT ![t] = Goto([@ EXCEPT !.date = date, !.city = city,
                                     !.family = family,
                                     !.promotion_status = promotion_status],
                                  "ModelCheck")]
  /\ UNCHANGED << startup, model, loads, completed, history, calc >>

\* get_lazy_model: if model is None (src/main.py:86)
ModelCheck(t) ==
  /\ rq[t].pc = "ModelCheck"
  /\ rq' = [rq EXCEPT ![t] = Goto(@, IF model = 0 THEN "ModelLoad" ELSE "ModelReturn")]
  /\ UNCHANGED << startup, model, loads, completed, history, calc >>

\* model = joblib.load(...) returns a new object and stores it (src/main.py:88-91)
ModelLoadOk(t) ==
  /\ rq[t].pc = "ModelLoad"
  /\ loads' = loads + 1
  /\ model' = loads + 1
  /\ rq' = [rq EXCEPT ![t] = Goto([@ EXCEPT !.didLoad = TRUE], "ModelReturn")]
  /\ UNCHANGED << startup, completed, history, calc >>

\* joblib.load raises (the file is missing or unreadable); model stays None
ModelLoadRaises(t) ==
  /\ rq[t].pc = "ModelLoad"
  /\ rq' = [rq EXCEPT ![t] = Raise(@, "ModelLoad")]
  /\ UNCHANGED << startup, model, loads, completed, history, calc >>

\* return model (src/main.py:92), bound to clf (src/main.py:135)
ModelReturn(t) ==
  /\ rq[t].pc = "ModelReturn"
  /\ rq' = [rq EXCEPT ![t] = Goto([@ EXCEPT !.clf = model], "Resolving")]
  /\ completed' = TRUE
  /\ UNCHANGED << startup, model, loads, history, calc >>

\* step A (src/main.py:138-145).  stores_df is the read CSV only when start-up
\* found it: without the CSV it is a frame with no 'city' column (KeyError),
\* after a start-up exception it is unbound (NameError).
Resolving(t) ==
  /\ rq[t].pc = "Resolving"
  /\ rq' = [rq EXCEPT ![t] =
              IF startup = "ok"
              THEN Goto([rq[t] EXCEPT !.store = << FindStore(rq[t].city) >>], "Featurizing")
              ELSE Raise(rq[t], "Resolving")]
  /\ UNCHANGED << startup, model, loads, completed, history, calc >>

\* the 17 columns of input_data (src/main.py:158-176)
InputData(store, family_code, type_code, city_code, promotion_status, dt) ==
  [store_nbr |-> store.store_nbr,
   family |-> family_code,
   onpromotion |-> OnPromotion(promotion_status),
   type |-> type_code,
   cluster |-> store.cluster,
   dcoilwtico |-> DEFAULT_OIL_PRICE,
   city |-> city_code,
   state |-> city_code] @@ CalendarFields(dt)

\* steps B and C (src/main.py:148-176): <<>> when a statement of them raises
BuildFeatures(r) ==
  LET safe_city_code == SafeCityCode(r.city)
      dt == Strptime(r.date)
      family_code == Transform(FamilyClasses, r.family)
      type_code == Transform(TypeClasses, r.store[1].type)
  IN IF safe_city_code = << >> \/ dt = << >> \/ family_code = << >> \/ type_code = << >>
     THEN << >>
     ELSE << InputData(r.store[1], family_code[1], type_code[1], safe_city_code[1],
                       r.promotion_status, dt[1]) >>

Featurizing(t) ==
  /\ rq[t].pc = "Featurizing"
  /\ rq' = [rq EXCEPT ![t] =
              IF BuildFeatures(rq[t]) = << >>
              THEN Raise(rq[t], "Featurizing")
              ELSE Goto([rq[t] EXCEPT !.input_data = BuildFeatures(rq[t])], "Scoring")]
  /\ UNCHANGED << startup, model, loads, completed, history, calc >>

\* clf.predict(input_data)[0] and np.expm1 of it (src/main.py:180-181)
ScoringOk(t) ==
  /\ rq[t].pc = "Scoring"
  /\ \E pred \in Predictions :
       rq' = [rq EXCEPT ![t] = Goto([@ EXCEPT !.pred = << pred >>], "Estimating")]
  /\ UNCHANGED << startup, model, loads, completed, history, calc >>

\* the scorer raises
ScoringRaises(t) ==
  /\ rq[t].pc = "Scoring"
  /\ rq' = [rq EXCEPT ![t] = Raise(@, "Scoring")]
  /\ UNCHANGED << startup, model, loads, completed, history, calc >>

\* steps D and E and the two result strings (src/main.py:182-209)
Estimating(t) ==
  /\ rq[t].pc = "Estimating"
  /\ rq' = [rq EXCEPT ![t] =
              LET e == Estimate(rq[t].pred[1], rq[t].family) IN
              Goto([rq[t] EXCEPT !.est = << e >>,
                             !.formatted_result =
                               << [kind |-> "result", revenue |-> e.revenue] >>],
                   "Persisting")]
  /\ UNCHANGED << startup, model, loads, completed, history, calc >>

\* PredictionHistory(date_input=dt.date(), city=city, family=family,
\*                   sales_prediction=revenue); req names the request that wrote it
Row(t, dt, city, family, revenue) ==
  [req |-> t, date_input |-> dt, city |-> city, family |-> family,
   sales_prediction |-> revenue]

\* step F: db.add and db.commit succeed (src/main.py:212-213)
PersistingOk(t) ==
  /\ rq[t].pc = "Persisting"
  /\ history' = Append(history, Row(t, Strptime(rq[t].date)[1], rq[t].city,
                                    rq[t].family, rq[t].est[1].revenue))
  /\ rq' = [rq EXCEPT ![t] = Goto(@, "Done")]
  /\ UNCHANGED << startup, model, loads, completed, calc >>

\* PersistingRaises with the added row stored although the commit raised
MutPersistingRaisesKeepsRow(t) ==
  /\ rq[t].pc = "Persisting"
  /\ history' = Append(history, Row(t, Strptime(rq[t].date)[1], rq[t].city,
                                    rq[t].family, rq[t].est[1].revenue))
  /\ rq' = [rq EXCEPT ![t] = Raise(@, "Persisting")]
  /\ UNCHANGED << startup, model, loads, completed, calc >>

\* db.commit raises: nothing is stored, and the except branch replaces the result
PersistingRaises(t) ==
  /\ rq[t].pc = "Persisting"
  /\ rq' = [rq EXCEPT ![t] = Raise(@, "Persisting")]
  /\ UNCHANGED << startup, model, loads, completed, history, calc >>

Next ==
  \/ \E t \in Reqs, f \in Forms :
       Start(t, f.date, f.city, f.family, f.promotion_status)
  \/ \E t \in Reqs : ModelCheck(t)
  \/ \E t \in Reqs : ModelLoadOk(t)
  \/ \E t \in Reqs : ModelLoadRaises(t)
  \/ \E t \in Reqs : ModelReturn(t)
  \/ \E t \in Reqs : Resolving(t)
  \/ \E t \in Reqs : Featurizing(t)
  \/ \E t \in Reqs : ScoringOk(t)
  \/ \E t \in Reqs : ScoringRaises(t)
  \/ \E t \in Reqs : Estimating(t)
  \/ \E t \in Reqs : PersistingOk(t)
  \/ \E t \in Reqs : PersistingRaises(t)

Spec == Init /\ [][Next]_vars

(***************************************************************************)
(* The pure steps, each applied once to an input of its own:               *)
(* promo_map.get, the revenue estimate with the row built from it, and the *)
(* calendar fields.                                                        *)
(***************************************************************************)
PromotionInputs == { "no", "yes", "high", "none", "standard", "HIGH", "" }

EstimateFamilies == DOMAIN price_map \cup { "STATIONERY", "WIDGETS", "" }

EstimatePreds == ((1 - UnitScale)..UnitScale) \cup { UnitScale * MaxUnits }

CalendarDates ==
  { dt \in [year : 2016..(2016 + NYears - 1), month : 1..12, day : 1..31] :
      dt.day <= DaysInMonth(dt.year, dt.month) }

ApplyOnPromotion(promotion_status) ==
  /\ calc.op = "none"
  /\ calc' = [op |-> "promo", promotion_status |-> promotion_status,
              out |-> OnPromotion(promotion_status)]
  /\ UNCHANGED << startup, model, loads, completed, history, rq >>

ApplyEstimate(pred, family) ==
  /\ calc.op = "none"
  /\ calc' = [op |-> "estimate", pred |-> pred, family |-> family,
              out |-> Estimate(pred, family),
              row |-> Row(0, Strptime(DateOk)[1], "Lagos", family,
                          Estimate(pred, family).revenue)]
  /\ UNCHANGED << startup, model, loads, completed, history, rq >>

ApplyCalendar(dt) ==
  /\ calc.op = "none"
  /\ calc' = [op |-> "calendar", dt |-> dt, out |-> CalendarFields(dt)]
  /\ UNCHANGED << startup, model, loads, completed, history, rq >>

NextPure ==
  \/ \E promotion_status \in PromotionInputs : ApplyOnPromotion(promotion_status)
  \/ \E pred \in EstimatePreds, family \in EstimateFamilies : ApplyEstimate(pred, family)
  \/ \E dt \in CalendarDates : ApplyCalendar(dt)

SpecPure == Init /\ [][NextPure]_vars

(***************************************************************************)
(* Properties.                                                             *)
(***************************************************************************)
\* the rows of the History Log written by request t
RowsOf(t) == { i \in DOMAIN history : history[i].req = t }

\* C1: when requests race on the uninitialized model handle, the model is
\* loaded exactly once in the process and every caller of get_lazy_model
\* receives the same loaded reference.
C1_LoadedExactlyOnce ==
  /\ loads <= 1
  /\ \A t, u \in Reqs : (rq[t].clf # 0 /\ rq[u].clf # 0) => rq[t].clf = rq[u].clf

\* C2: when the History Log write fails for a request whose feature building,
\* scoring and revenue estimation succeeded, the caller still receives the
\* computed revenue result, not an error.
C2_ResultDespiteLogFailure ==
  \A t \in Reqs :
    rq[t].failedAt = "Persisting" =>
      rq[t].formatted_result = << [kind |-> "result", revenue |-> rq[t].est[1].revenue] >>

\* C3: a request that ended in Done has exactly one row in the History Log, a
\* request that ended in Failed has an error response and no row, and the number
\* of rows equals the number of requests that ended in Done.
C3_OneRowPerDone ==
  /\ \A t \in Reqs : rq[t].pc = "Done" => Cardinality(RowsOf(t)) = 1
  /\ \A t \in Reqs :
       rq[t].pc = "Failed" =>
         /\ RowsOf(t) = { }
         /\ rq[t].formatted_result = << [kind |-> "error", revenue |-> 0] >>
  /\ Len(history) = Cardinality({ t \in Reqs : rq[t].pc = "Done" })

C3_Witness ==
  \E t, u \in Reqs :
    /\ rq[t].pc = "Done"
    /\ rq[u].pc = "Failed" /\ rq[u].failedAt = "Persisting"
    /\ Len(history) = 1

\* the cities of the city-to-store table the process holds
StoreTableCities ==
  IF startup = "ok" THEN { StoreRows[i].city : i \in DOMAIN StoreRows } ELSE { }

\* C4: a request with a parseable date, an encodable family and a city in
\* neither the city-to-store table nor the city encoder vocabulary does not fail
\* in resolution or feature building: its store profile is the default
\* (1, 1, 'D'), its city and state features carry the code of the first known
\* city label, and the row persisted for it carries the literal input city.
C4_UnknownCityDegrades ==
  \A t \in Reqs :
    ( /\ startup # "error"
      /\ rq[t].date = DateOk
      /\ rq[t].family = "GROCERY I"
      /\ rq[t].city = "Zamfara"
      /\ rq[t].city \notin StoreTableCities ) =>
        /\ rq[t].failedAt \notin { "Resolving", "Featurizing" }
        /\ rq[t].store \in { << >>, << [store_nbr |-> 1, cluster |-> 1, type |-> "D"] >> }
        /\ rq[t].input_data # << >> =>
             /\ rq[t].input_data[1].city = 0
             /\ rq[t].input_data[1].state = 0
        /\ \A i \in RowsOf(t) : history[i].city = "Zamfara"

\* C5: a request whose date is not YYYY-MM-DD, or whose family the family
\* encoder does not know, never gets past feature building, ends with an error
\* response, and has no row in the History Log.
C5_BadDateOrFamilyFails ==
  \A t \in Reqs :
    (rq[t].date = DateDayFirst \/ rq[t].family = "WIDGETS") =>
      /\ rq[t].pc \notin { "Scoring", "Estimating", "Persisting", "Done" }
      /\ rq[t].input_data = << >>
      /\ RowsOf(t) = { }
      /\ rq[t].pc = "Failed" => rq[t].formatted_result = << [kind |-> "error", revenue |-> 0] >>

C5_Witness ==
  \E t, u \in Reqs :
    /\ rq[t].date = DateDayFirst /\ rq[t].pc = "Failed" /\ rq[t].failedAt = "Featurizing"
    /\ rq[u].family = "WIDGETS" /\ rq[u].pc = "Failed" /\ rq[u].failedAt = "Featurizing"

\* C6 as stated: the promotion intensity is 0 for "none", 10 for "standard",
\* 50 for "high" and 0 for any other value.
C6_PromotionAsStated ==
  calc.op = "promo" =>
    calc.out = CASE calc.promotion_status = "none" -> 0
                 [] calc.promotion_status = "standard" -> 10
                 [] calc.promotion_status = "high" -> 50
                 [] OTHER -> 0

\* C6 amended: the promotion intensity is 0 for "no", 10 for "yes", 50 for
\* "high" and 0 for any other value, "none" and "standard" included; every
\* value has an intensity.
C6_PromotionAsCoded ==
  calc.op = "promo" =>
    calc.out = CASE calc.promotion_status = "no" -> 0
                 [] calc.promotion_status = "yes" -> 10
                 [] calc.promotion_status = "high" -> 50
                 [] OTHER -> 0

C6_Witness == calc.op = "promo" /\ calc.promotion_status = "standard" /\ calc.out = 0

\* C7: once a call of get_lazy_model has returned, the model handle is loaded
\* and the cached reference never changes again, so that every later call
\* returns the same reference.
C7_LoadedForever == [][completed => (model # 0 /\ model' = model)]_vars

\* C8: the revenue estimate is max(0, units) x 50 x unit price, the unit price
\* being the table's price of a family in the price table and 1500 otherwise; it
\* is never negative, and it is the value the row stores.
C8_RevenueFormula ==
  calc.op = "estimate" =>
    LET units == IF calc.pred < 0 THEN 0 ELSE calc.pred
        price == IF calc.family \in DOMAIN price_map THEN price_map[calc.family] ELSE 1500
    IN /\ calc.out.revenue = units * 50 * price
       /\ calc.out.revenue >= 0
       /\ calc.out.adjusted_units = units * 50
       /\ calc.row.sales_prediction = calc.out.revenue
       /\ calc.row.family = calc.family

\* 100 units of GROCERY I: 5000 adjusted units, revenue 10,000,000
C8_Witness ==
  /\ calc.op = "estimate"
  /\ calc.pred = 100 * UnitScale
  /\ calc.family = "GROCERY I"
  /\ calc.out.adjusted_units = 5000 * UnitScale
  /\ calc.row.sales_prediction = 10000000 * UnitScale

\* the position of a stage in the order the handler runs the stages in
StageRank(stage) ==
  CASE stage = "ModelCheck" -> 1 [] stage = "ModelLoad" -> 2 [] stage = "ModelReturn" -> 3
    [] stage = "Resolving" -> 4 [] stage = "Featurizing" -> 5 [] stage = "Scoring" -> 6
    [] stage = "Estimating" -> 7 [] stage = "Persisting" -> 8 [] stage = "Done" -> 9

\* C9 as stated: the model handle is engaged only after the feature vector is
\* built, so a request that failed in resolution or feature building has not
\* loaded the model (stated for a process whose start-up found its files).
C9_FailureBeforeModel ==
  \A t \in Reqs :
    (startup = "ok" /\ rq[t].failedAt \in { "Resolving", "Featurizing" }) => ~rq[t].didLoad

\* C9 amended: a request runs model access, store resolution, feature building,
\* scoring, estimation and persistence in this order, model access first; a
\* request that failed in resolution or feature building has already obtained
\* the model, and the handle is loaded.
C9_ModelFirstOrder ==
  \A t \in Reqs :
    LET tr == rq[t].trace IN
    /\ tr # << >> => tr[1] = "ModelCheck"
    /\ \A i \in 1..(Len(tr) - 1) : StageRank(tr[i]) < StageRank(tr[i + 1])
    /\ \A i \in 1..Len(tr) : StageRank(tr[i]) >= 4 => (\E j \in 1..(i - 1) : tr[j] = "ModelReturn")
    /\ rq[t].failedAt \in { "Resolving", "Featurizing" } => (rq[t].clf # 0 /\ model # 0)

C9_Witness ==
  \E t \in Reqs :
    /\ rq[t].failedAt = "Featurizing"
    /\ rq[t].date = DateDayFirst
    /\ rq[t].didLoad

\* day of the week by Sakamoto's method, Monday = 0
WeekdayOracle(dt) ==
  LET shift == << 0, 3, 2, 5, 0, 3, 5, 1, 4, 6, 2, 4 >>
      y == IF dt.month < 3 THEN dt.year - 1 ELSE dt.year
  IN (((y + y \div 4 - y \div 100 + y \div 400 + shift[dt.month] + dt.day) % 7) + 6) % 7

\* C10: for every calendar date, is_weekend is 1 exactly on days 5 and 6 of the
\* week (Monday = 0), is_payday exactly on days 15, 30 and 31 of the month,
\* is_post_payday exactly on days 1 and 16, the quarter is (month-1)//3 + 1, and
\* the holiday/event flag is 0.
C10_CalendarFields ==
  calc.op = "calendar" =>
    LET f == calc.out
        dt == calc.dt
    IN /\ f.day_of_week = WeekdayOracle(dt)
       /\ f.is_weekend \in { 0, 1 }
       /\ f.is_weekend = 1 <=> f.day_of_week \in { 5, 6 }
       /\ f.is_payday \in { 0, 1 }
       /\ f.is_payday = 1 <=> (dt.day = 15 \/ dt.day = 30 \/ dt.day = 31)
       /\ f.is_post_payday \in { 0, 1 }
       /\ f.is_post_payday = 1 <=> (dt.day = 1 \/ dt.day = 16)
       /\ f.quarter = CASE dt.month \in 1..3 -> 1 [] dt.month \in 4..6 -> 2
                        [] dt.month \in 7..9 -> 3 [] dt.month \in 10..12 -> 4
       /\ f.is_holiday_or_event = 0

\* Saturday 30 December 2017: a weekend payday in the fourth quarter
C10_Witness ==
  /\ calc.op = "calendar"
  /\ calc.dt = [year |-> 2017, month |-> 12, day |-> 30]
  /\ calc.out.day_of_week = 5
  /\ calc.out.is_weekend = 1
  /\ calc.out.is_payday = 1
  /\ calc.out.quarter = 4

=============================================================================
